---------------------------- MODULE Spec2Model ----------------------------
(***************************************************************************)
(* A model of tiny-c.c (CCurl/mc): the lexer, the recursive-descent parser *)
(* with its symbol table, the code generator and the byte-code VM.         *)
(*                                                                         *)
(* Characters are one-character strings and EOF is the string "EOF".       *)
(* A `char` is signed (x86-64), so a code byte is a value of -128..127.    *)
(* dict_t is laid out as on LP64: kind at 0, val at 8, nm at 16, size 32;  *)
(* the table is modelled as the bytes of its memory, so that a name that   *)
(* does not fit nm[16] lands where strcpy puts it.                         *)
(***************************************************************************)
EXTENDS Integers, Sequences, FiniteSets, TLC

VARIABLES
    input,      \* the characters of the source file (never changes)
    phase,      \* where main() is: "start", "prologue", "parsed", "emitted",
                \* "run", "stopped", "exit", or "undefined" after undefined behaviour
    status,     \* "ok", or the way the process ended: "syntax_error", "error",
                \* "abort", "stack_not_empty"
    lex,        \* the lexer's globals: pos (characters read), ch, sym, int_val, id_name
    nodes,      \* the AST pool nodes[0..num_nodes-1]; node i is nodes[i]
    prog,       \* the node returned by program() (0 before)
    dict,       \* the memory of dict[], byte by byte
    last,       \* index of the newest symbol
    vm,         \* the code buffer vm[0..], as far as it was written or reserved
    here,       \* emission offset
    wlog,       \* history: every write to vm so far
    symlog,     \* history: every dict_add ("add"), every resolved variable ("var"),
                \* every lookup of a called ("call") or defined ("def") function
    elog,       \* history: the range of code emitted for each CST, WHILE, DO, FUNC_DEF
    pc, sp, rsp, st, rst,   \* the VM: program counter, stack pointers, stacks
    prev,       \* history: the offset and opcode of the last executed instruction
    calls       \* history: for each return address on rst, the ICALL that pushed it

vars == <<input, phase, status, lex, nodes, prog, dict, last, vm, here, wlog, symlog,
          elog, pc, sp, rsp, st, rst, prev, calls>>

---------------------------------------------------------------------------
(* Sizes, tiny-c.c lines 48-50 and 386.                                    *)
MAX_NODES == 1000
DICT_SZ == 999
VM_SZ == 4096
STK_SZ == 1000
ID_NAME_SZ == 64
NM_SZ == 16
\* dict_t on LP64: { int kind; (4 bytes padding) long val; char nm[16]; }
DICT_ENTRY_SZ == 32
OFF_KIND == 0
OFF_VAL == 8
OFF_NM == 16
INT_MAX == 2147483647

(* Tokens, lines 57-60.                                                    *)
DO_SYM == 0
ELSE_SYM == 1
IF_SYM == 2
WHILE_SYM == 3
VOID_SYM == 4
RET_SYM == 5
LBRA == 6
RBRA == 7
LPAR == 8
RPAR == 9
PLUS == 10
MINUS == 11
STAR == 12
SLASH == 13
LESS == 14
GRT == 15
SEMI == 16
EQUAL == 17
INT == 18
ID == 19
FUNC == 20
EOI == 21

(* Node kinds, lines 127-128.                                              *)
VAR == 0
CST == 1
ADD == 2
SUB == 3
MUL == 4
DIV == 5
LT == 6
GT == 7
SET == 8
FUNC_DEF == 9
FUNC_CALL == 10
RET == 11
IF1 == 12
IF2 == 13
WHILE == 14
DO == 15
EMPTY == 16
SEQ == 17
EXPR == 18
PROG == 19

IsVar == 0
IsFunc == 1

(* Opcodes, lines 318-319.                                                 *)
HALT == 0
FETCH == 1
STORE == 2
LIT1 == 3
LIT2 == 4
LIT == 5
IDROP == 6
IADD == 7
ISUB == 8
IMUL == 9
IDIV == 10
ILT == 11
IGT == 12
JZ == 13
JNZ == 14
JMP == 15
ICALL == 16
IRET == 17

---------------------------------------------------------------------------
(* Characters.                                                             *)
EOF == "EOF"

\* The printable ASCII characters, 32 to 126, in order (GRAVE stands for the
\* grave accent, 96, which a TLA+ string cannot hold).
AsciiTab ==
    <<" ", "!", "\"", "#", "$", "%", "&", "'", "(", ")", "*", "+", ",", "-", ".", "/",
      "0", "1", "2", "3", "4", "5", "6", "7", "8", "9", ":", ";", "<", "=", ">", "?",
      "@", "A", "B", "C", "D", "E", "F", "G", "H", "I", "J", "K", "L", "M", "N", "O",
      "P", "Q", "R", "S", "T", "U", "V", "W", "X", "Y", "Z", "[", "\\", "]", "^", "_",
      "GRAVE", "a", "b", "c", "d", "e", "f", "g", "h", "i", "j", "k", "l", "m", "n", "o",
      "p", "q", "r", "s", "t", "u", "v", "w", "x", "y", "z", "{", "|", "}", "~">>

\* The character code of a printable character.
Ord(c) == 31 + (CHOOSE i \in 1..Len(AsciiTab) : AsciiTab[i] = c)

UpperChars == {AsciiTab[i] : i \in 34..59}
LowerChars == {AsciiTab[i] : i \in 66..91}
DigitChars == {AsciiTab[i] : i \in 17..26}

isAlpha(c) == c \in UpperChars \/ c \in LowerChars \/ c = "_"
isNum(c) == c \in DigitChars
isAlphaNum(c) == isAlpha(c) \/ isNum(c)

\* words[], a NULL-terminated list; the index of a word is its token.
words == << <<"d", "o">>, <<"e", "l", "s", "e">>, <<"i", "f">>,
            <<"w", "h", "i", "l", "e">>, <<"v", "o", "i", "d">>,
            <<"r", "e", "t", "u", "r", "n">> >>

---------------------------------------------------------------------------
(* Fixed-width integers.                                                   *)

\* Conversion of an int to char (signed, 8 bits).
ToChar(n) == LET m == n % 256 IN IF m >= 128 THEN m - 256 ELSE m

\* (byte)c : the unsigned value of a char.
ToByte(c) == c % 256

\* Byte k (0..3) of the 32-bit twos complement form of v, -2^31 <= v < 2^31.
Byte32(v, k) ==
    LET u == IF v >= 0 THEN v ELSE (v + INT_MAX) + 1     \* low 31 bits
        b == (u \div (256 ^ k)) % 256
    IN IF k = 3 /\ v < 0 THEN b + 128 ELSE b

\* Byte k (0..7) of a long that holds v.
Byte64(v, k) == IF k <= 3 THEN Byte32(v, k) ELSE IF v < 0 THEN 255 ELSE 0

---------------------------------------------------------------------------
(* The memory of dict[DICT_SZ+1], a sequence of bytes 0..255 that holds    *)
(* the table as far as it was written; the rest is the zeros of a global.  *)

Max(a, b) == IF a >= b THEN a ELSE b

RdB(d, o) == IF o < Len(d) THEN d[o + 1] ELSE 0

\* d with the bytes bs stored from offset o on.
WrBytes(d, o, bs) ==
    [i \in 1..Max(Len(d), o + Len(bs)) |->
        IF o < i /\ i <= o + Len(bs) THEN bs[i - o]
        ELSE IF i <= Len(d) THEN d[i] ELSE 0]

NameBytes(name) == [i \in 1..Len(name) |-> Ord(name[i])]

\* strcmp(p->nm, name) == 0 for the entry at index i: the bytes from nm on
\* are those of name, then a NUL (the read runs on past nm[15] if need be).
NmEquals(d, i, name) ==
    LET o == i * DICT_ENTRY_SZ + OFF_NM IN
    /\ \A k \in 1..Len(name) : RdB(d, o + k - 1) = Ord(name[k])
    /\ RdB(d, o + Len(name)) = 0

\* p->kind == kind
KindEquals(d, i, kind) ==
    \A k \in 0..3 : RdB(d, i * DICT_ENTRY_SZ + OFF_KIND + k) = Byte32(kind, k)

\* The string strcmp and printf read at dict[i].nm.
DictNm(d, i) ==
    LET o == i * DICT_ENTRY_SZ + OFF_NM
        n == CHOOSE k \in 0..Max(0, Len(d) - o) :
                /\ RdB(d, o + k) = 0
                /\ \A j \in 0..(k - 1) : RdB(d, o + j) # 0
    IN [k \in 1..n |-> RdB(d, o + k - 1)]

DictKind(d, i) == RdB(d, i * DICT_ENTRY_SZ + OFF_KIND)

\* Whether dict[i].val, a long, is a value of 32 bits (the model's integers).
ValFits(d, i) ==
    LET o == i * DICT_ENTRY_SZ + OFF_VAL IN
    \/ RdB(d, o + 3) < 128 /\ \A k \in 4..7 : RdB(d, o + k) = 0
    \/ RdB(d, o + 3) >= 128 /\ \A k \in 4..7 : RdB(d, o + k) = 255

\* dict[i].val
DictVal(d, i) ==
    LET o == i * DICT_ENTRY_SZ + OFF_VAL
        b3 == RdB(d, o + 3)
        lo == RdB(d, o) + 256 * RdB(d, o + 1) + 65536 * RdB(d, o + 2)
    IN IF b3 < 128 THEN lo + 16777216 * b3
       ELSE ((lo + 16777216 * (b3 - 128)) - INT_MAX) - 1

\* dict[i].val = v
SetDictVal(d, i, v) ==
    WrBytes(d, i * DICT_ENTRY_SZ + OFF_VAL, [k \in 1..8 |-> Byte64(v, k - 1)])

\* int dict_find(const char *name, int kind): the newest entry that matches.
dict_find(s, name, kind) ==
    LET hits == {i \in 1..s.last : NmEquals(s.dict, i, name) /\ KindEquals(s.dict, i, kind)}
    IN IF hits = {} THEN 0 ELSE CHOOSE i \in hits : \A j \in hits : j <= i

SymEvent(ev, name, kind, idx) == [ev |-> ev, name |-> name, kind |-> kind, idx |-> idx]

\* The globals with the lookup of id_name as a function put in the history.
looked_up(s, ev, idx) ==
    [s EXCEPT !.symlog = Append(@, SymEvent(ev, s.id_name, IsFunc, idx))]

\* int dict_add(const char *name, int kind). There is no check of last against
\* DICT_SZ, and strcpy does not check the name against nm[16]: a name of 16
\* characters or more is undefined behaviour. s.ub is what the build does
\* then: "spill" (strcpy writes on, into the entries that follow) or "abort"
\* (a fortified strcpy ends the process).
dict_add(s, name, kind) ==
    LET l == s.last + 1
        o == l * DICT_ENTRY_SZ
        d1 == WrBytes(s.dict, o + OFF_KIND, [k \in 1..4 |-> Byte32(kind, k - 1)])
        bs == NameBytes(name) \o <<0>>
    IN IF l > DICT_SZ THEN [s EXCEPT !.status = "undefined"]
       ELSE IF Len(bs) > NM_SZ /\ s.ub = "abort"
            THEN [s EXCEPT !.last = l, !.dict = d1, !.status = "abort"]
       ELSE IF o + OFF_NM + Len(bs) > (DICT_SZ + 1) * DICT_ENTRY_SZ
            THEN [s EXCEPT !.last = l, !.dict = d1, !.status = "undefined"]
       ELSE [s EXCEPT !.last = l, !.dict = WrBytes(d1, o + OFF_NM, bs),
                      !.symlog = Append(@, SymEvent("add", name, kind, l))]

---------------------------------------------------------------------------
(* Lexer. A lexer/parser operator takes the globals as a record s and      *)
(* returns them; once s.status is not "ok" the process has ended and       *)
(* nothing changes any more.                                               *)

\* void next_ch(): fgetc, which keeps returning EOF at the end.
next_ch(s) ==
    IF s.pos < Len(input)
    THEN [s EXCEPT !.ch = input[s.pos + 1], !.pos = s.pos + 1]
    ELSE [s EXCEPT !.ch = EOF]

syntax_error(s) == [s EXCEPT !.status = "syntax_error"]

RECURSIVE lcomment(_)
lcomment(s) == IF s.ch # EOF /\ s.ch # "\n" THEN lcomment(next_ch(s)) ELSE s

\* while (isNum(ch)) { int_val = int_val*10 + (ch - '0'); next_ch(); }
\* Overflow of the int is undefined behaviour.
RECURSIVE scan_int(_)
scan_int(s) ==
    IF ~isNum(s.ch) THEN s
    ELSE LET d == Ord(s.ch) - Ord("0") IN
         IF s.int_val > (INT_MAX - d) \div 10
         THEN [s EXCEPT !.status = "undefined"]
         ELSE scan_int(next_ch([s EXCEPT !.int_val = s.int_val * 10 + d]))

\* while (isAlphaNum(ch)) { id_name[i++]=ch; next_ch(); } id_name[i] = '\0';
\* With 64 characters or more a write falls outside id_name[64].
RECURSIVE scan_id(_)
scan_id(s) ==
    IF ~isAlphaNum(s.ch) THEN s
    ELSE IF Len(s.id_name) >= ID_NAME_SZ - 1
         THEN [s EXCEPT !.status = "undefined"]
         ELSE scan_id(next_ch([s EXCEPT !.id_name = Append(@, s.ch)]))

\* The index at which the scan of words[] stops: that of the word, or that of
\* the closing NULL.
word_index(name) ==
    IF \E k \in 1..Len(words) : words[k] = name
    THEN (CHOOSE k \in 1..Len(words) : words[k] = name) - 1
    ELSE Len(words)

\* The default case of next_sym for a letter or underscore.
scan_word(s) ==
    LET t == scan_id([s EXCEPT !.id_name = <<>>])
        w == word_index(t.id_name)
    IN IF t.status # "ok" THEN t
       ELSE IF w < Len(words) THEN [t EXCEPT !.sym = w]
       ELSE IF t.ch = "("
            THEN LET u == next_ch(t) IN
                 IF u.ch = ")" THEN [next_ch(u) EXCEPT !.sym = FUNC]
                 ELSE syntax_error([u EXCEPT !.sym = ID])
       ELSE [t EXCEPT !.sym = ID]

\* The token of a one-character symbol (EOI for any other character).
punct(c) ==
    CASE c = "{" -> LBRA  [] c = "}" -> RBRA  [] c = "(" -> LPAR  [] c = ")" -> RPAR
      [] c = "+" -> PLUS  [] c = "-" -> MINUS [] c = "*" -> STAR  [] c = "<" -> LESS
      [] c = ">" -> GRT   [] c = ";" -> SEMI  [] c = "=" -> EQUAL [] OTHER -> EOI

\* void next_sym()
RECURSIVE next_sym(_)
next_sym(s) ==
    IF s.status # "ok" THEN s
    ELSE IF s.ch \in {" ", "\t", "\n", "\r"} THEN next_sym(next_ch(s))
    ELSE IF s.ch = EOF THEN [s EXCEPT !.sym = EOI]
    ELSE IF punct(s.ch) # EOI THEN [next_ch(s) EXCEPT !.sym = punct(s.ch)]
    ELSE IF s.ch = "/"
         THEN LET t == next_ch(s) IN
              IF t.ch = "/" THEN next_sym(lcomment(t)) ELSE [t EXCEPT !.sym = SLASH]
    ELSE IF isNum(s.ch)
         THEN LET t == scan_int([s EXCEPT !.int_val = 0]) IN
              IF t.status # "ok" THEN t ELSE [t EXCEPT !.sym = INT]
    ELSE IF isAlpha(s.ch) THEN scan_word(s)
    ELSE syntax_error(s)

---------------------------------------------------------------------------
(* Parser. A node pointer is 0 for NULL and i+1 for &nodes[i]; s.nodes[p]  *)
(* is the node p points to. An operator that returns a node returns the    *)
(* record [s, x]: the globals and the node.                                *)

R(s, x) == [s |-> s, x |-> x]

\* node_t *new_node(int k): the pool is a global, so o1, o2, o3 and val are 0.
new_node(s, k) ==
    IF s.status # "ok" THEN R(s, 0)
    ELSE IF MAX_NODES <= Len(s.nodes) THEN R([s EXCEPT !.status = "error"], 0)
    ELSE R([s EXCEPT !.nodes = Append(@, [kind |-> k, o1 |-> 0, o2 |-> 0, o3 |-> 0, val |-> 0])],
           Len(s.nodes) + 1)

\* x->o1 = v and the like (nothing once the process has ended)
SetO1(s, x, v) == IF s.status # "ok" THEN s ELSE [s EXCEPT !.nodes[x].o1 = v]
SetO2(s, x, v) == IF s.status # "ok" THEN s ELSE [s EXCEPT !.nodes[x].o2 = v]
SetO3(s, x, v) == IF s.status # "ok" THEN s ELSE [s EXCEPT !.nodes[x].o3 = v]
SetVal(s, x, v) == IF s.status # "ok" THEN s ELSE [s EXCEPT !.nodes[x].val = v]
SetKind(s, x, k) == IF s.status # "ok" THEN s ELSE [s EXCEPT !.nodes[x].kind = k]

\* node_t *gen(int k, node_t *o1, node_t *o2)
gen(s, k, o1, o2) ==
    LET a == new_node(s, k) IN R(SetO2(SetO1(a.s, a.x, o1), a.x, o2), a.x)

\* void expect_sym(int exp)
expect_sym(s, exp) ==
    IF s.status # "ok" THEN s
    ELSE IF s.sym # exp THEN syntax_error(s)
    ELSE next_sym(s)

\* int mathop()
mathop(s) ==
    IF s.sym = PLUS THEN ADD
    ELSE IF s.sym = MINUS THEN SUB
    ELSE IF s.sym = STAR THEN MUL
    ELSE IF s.sym = SLASH THEN DIV
    ELSE 0

RECURSIVE term(_), sum_loop(_), sum(_), test(_), expr(_), paren_expr(_),
          block_loop(_), statement(_)

\* node_t *term()
term(s) ==
    LET id3(a, f, b) ==
            IF b.status # "ok" THEN R(b, a.x)
            ELSE R(next_sym(SetVal([b EXCEPT !.symlog = Append(@,
                       SymEvent("var", b.id_name, IsVar, IF f = 0 THEN b.last ELSE f))],
                       a.x, IF f = 0 THEN b.last ELSE f)), a.x)
        id2(a, f) == id3(a, f, IF f = 0 THEN dict_add(a.s, a.s.id_name, IsVar) ELSE a.s)
        id1(a) == IF a.s.status # "ok" THEN a
                  ELSE id2(a, dict_find(a.s, a.s.id_name, IsVar))
        int1(a) == R(next_sym(SetVal(a.s, a.x, a.s.int_val)), a.x)
    IN CASE s.status # "ok" -> R(s, 0)
         [] s.status = "ok" /\ s.sym = ID -> id1(new_node(s, VAR))
         [] s.status = "ok" /\ s.sym = INT -> int1(new_node(s, CST))
         [] OTHER -> paren_expr(s)

\* The loop of sum() folding to the right: the new node takes the whole rest of
\* the chain as its second operand.
sum_loop_RightHeavy(r) ==
    LET k2(a, b) == IF b.s.status # "ok" THEN R(b.s, a.x)
                    ELSE R(SetO2(b.s, a.x, b.x), a.x)
        k1(a) == k2(a, sum_loop(term(next_sym(a.s))))
    IN IF r.s.status # "ok" \/ mathop(r.s) = 0 THEN r
       ELSE k1(gen(r.s, mathop(r.s), r.x, 0))

\* The loop of sum(): while (mathop()) { x=gen(mathop(), x, 0); next_sym(); x->o2=term(); }
sum_loop(r) ==
    LET k2(a, b) == IF b.s.status # "ok" THEN R(b.s, a.x)
                    ELSE sum_loop(R(SetO2(b.s, a.x, b.x), a.x))
        k1(a) == k2(a, term(next_sym(a.s)))
    IN IF r.s.status # "ok" \/ mathop(r.s) = 0 THEN r
       ELSE k1(gen(r.s, mathop(r.s), r.x, 0))

\* node_t *sum()
sum(s) == sum_loop(term(s))

\* node_t *test(): the second sum() is called before gen().
test(s) ==
    LET k2(a, b) == gen(b.s, IF a.s.sym = LESS THEN LT ELSE GT, a.x, b.x)
        k1(a) == IF a.s.status = "ok" /\ a.s.sym \in {LESS, GRT}
                 THEN k2(a, sum(next_sym(a.s)))
                 ELSE a
    IN k1(sum(s))

\* expr() taking whatever test() returned as the target of an assignment.
expr_AnyTarget(s) ==
    LET k2(a, b) == gen(b.s, SET, a.x, b.x)
        k1(a) == IF s.sym = ID /\ a.s.status = "ok" /\ a.s.sym = EQUAL
                 THEN k2(a, expr(next_sym(a.s)))
                 ELSE a
    IN IF s.status # "ok" THEN R(s, 0) ELSE k1(test(s))

\* node_t *expr(): test() alone unless the expression starts with an ID, is
\* a VAR and an = follows.
expr(s) ==
    LET k2(a, b) == gen(b.s, SET, a.x, b.x)
        k1(a) == IF /\ s.sym = ID /\ a.s.status = "ok"
                    /\ a.s.nodes[a.x].kind = VAR /\ a.s.sym = EQUAL
                 THEN k2(a, expr(next_sym(a.s)))
                 ELSE a
    IN IF s.status # "ok" THEN R(s, 0) ELSE k1(test(s))

\* node_t *paren_expr()
paren_expr(s) ==
    LET k1(a) == R(expect_sym(a.s, RPAR), a.x)
    IN k1(expr(expect_sym(s, LPAR)))

\* The loop of a block: while (sym != RBRA) { x=gen(SEQ, x, NULL); x->o2=statement(); }
block_loop(r) ==
    LET k2(a, b) == IF b.s.status # "ok" THEN R(b.s, a.x)
                    ELSE block_loop(R(SetO2(b.s, a.x, b.x), a.x))
        k1(a) == k2(a, statement(a.s))
    IN IF r.s.status # "ok" \/ r.s.sym = RBRA THEN r
       ELSE k1(gen(r.s, SEQ, r.x, 0))

\* node_t *statement()
statement(s) ==
    LET xif == new_node(s, IF1)
        xwhile == new_node(s, WHILE)
        xdo == new_node(s, DO)
        \* case IF_SYM
        if4(x, c) == IF c.s.status # "ok" THEN R(c.s, x.x)
                     ELSE R(SetO3(c.s, x.x, c.x), x.x)
        if3(x, b) ==
            CASE b.s.status # "ok" -> R(b.s, x.x)
              [] b.s.status = "ok" /\ b.s.sym = ELSE_SYM ->
                   if4(x, statement(next_sym(SetKind(SetO2(b.s, x.x, b.x), x.x, IF2))))
              [] OTHER -> R(SetO2(b.s, x.x, b.x), x.x)
        if2(x, a) == if3(x, statement(SetO1(a.s, x.x, a.x)))
        \* case WHILE_SYM
        while3(x, b) == IF b.s.status # "ok" THEN R(b.s, x.x)
                        ELSE R(SetO2(b.s, x.x, b.x), x.x)
        while2(x, a) == while3(x, statement(SetO1(a.s, x.x, a.x)))
        \* case FUNC
        call2(x, f) == R(IF f = 0 THEN syntax_error(SetVal(x.s, x.x, f))
                         ELSE expect_sym(next_sym(SetVal(x.s, x.x, f)), SEMI), x.x)
        call1(x) == IF x.s.status # "ok" THEN x
                    ELSE call2(R(looked_up(x.s, "call", dict_find(x.s, x.s.id_name, IsFunc)), x.x),
                               dict_find(x.s, x.s.id_name, IsFunc))
        \* case DO_SYM
        do3(x, b) == R(expect_sym(SetO2(b.s, x.x, b.x), SEMI), x.x)
        do2(x, a) == IF a.s.status # "ok" THEN R(a.s, x.x)
                     ELSE do3(x, paren_expr(expect_sym(SetO1(a.s, x.x, a.x), WHILE_SYM)))
        \* case SEMI
        semi1(x) == R(next_sym(x.s), x.x)
        \* case LBRA
        blk2(r) == IF r.s.status # "ok" THEN r ELSE R(next_sym(r.s), r.x)
        blk1(x) == blk2(block_loop(R(next_sym(x.s), x.x)))
        \* case VOID_SYM
        def4(x, b) == IF b.s.status # "ok" THEN R(b.s, x.x)
                      ELSE R(SetO1(b.s, x.x, b.x), x.x)
        def3(x, t) == IF t.status # "ok" THEN R(t, x.x)
                      ELSE IF t.sym # LBRA THEN R(syntax_error(SetVal(t, x.x, t.last)), x.x)
                      ELSE def4(x, statement(SetVal(t, x.x, t.last)))
        def2(x, f) == IF f # 0 THEN R(syntax_error(SetVal(x.s, x.x, f)), x.x)
                      ELSE def3(x, dict_add(x.s, x.s.id_name, IsFunc))
        def1(x) == IF x.s.status # "ok" THEN x
                   ELSE def2(R(looked_up(x.s, "def", dict_find(x.s, x.s.id_name, IsFunc)), x.x),
                             dict_find(x.s, x.s.id_name, IsFunc))
        \* default
        expr2(x) == R(expect_sym(x.s, SEMI), x.x)
        expr1(a) == expr2(gen(a.s, EXPR, a.x, 0))
    IN CASE s.status # "ok" -> R(s, 0)
         [] s.status = "ok" /\ s.sym = IF_SYM -> if2(xif, paren_expr(next_sym(xif.s)))
         [] s.status = "ok" /\ s.sym = WHILE_SYM ->
                while2(xwhile, paren_expr(next_sym(xwhile.s)))
         [] s.status = "ok" /\ s.sym = FUNC -> call1(new_node(s, FUNC_CALL))
         [] s.status = "ok" /\ s.sym = RET_SYM -> new_node(expect_sym(next_sym(s), SEMI), RET)
         [] s.status = "ok" /\ s.sym = DO_SYM -> do2(xdo, statement(next_sym(xdo.s)))
         [] s.status = "ok" /\ s.sym = SEMI -> semi1(new_node(s, EMPTY))
         [] s.status = "ok" /\ s.sym = LBRA -> blk1(new_node(s, EMPTY))
         [] s.status = "ok" /\ s.sym = VOID_SYM ->
                def1(new_node(expect_sym(next_sym(s), FUNC), FUNC_DEF))
         [] OTHER -> expr1(expr(s))

\* node_t *program()
program(s) ==
    LET p2(p, b) == R(SetO1(b.s, p.x, b.x), p.x)
        p1(p) == p2(p, statement(p.s))
    IN p1(gen(next_sym(s), PROG, 0, 0))

---------------------------------------------------------------------------
(* Code generator. s.vm holds vm[0..here-1] (a hole holds the 0 of the     *)
(* global until it is fixed). Every write is also put in s.wlog, with the  *)
(* role of the byte as the caller of g uses it: "opcode", "operand" or     *)
(* "disp" (a jump displacement); a hole is logged as the reservation of a  *)
(* displacement byte.                                                      *)

Entry(op, at, h, val, role, target) ==
    [op |-> op, at |-> at, here |-> h, val |-> val, role |-> role, target |-> target]

\* void g(code c): vm[here++] = c, with no check of here against VM_SZ; a
\* write at vm[VM_SZ] or beyond is undefined behaviour.
g(s, c, role) ==
    IF s.status # "ok" THEN s
    ELSE LET e == Entry("g", s.here, s.here, ToChar(c), role, s.here) IN
         IF s.here >= VM_SZ
         THEN [s EXCEPT !.here = @ + 1, !.wlog = Append(@, e), !.status = "undefined"]
         ELSE [s EXCEPT !.vm = Append(@, ToChar(c)), !.here = @ + 1, !.wlog = Append(@, e)]

\* void g2(int n)
g2(s, n) == g(g(s, n % 256, "operand"), (n \div 256) % 256, "operand")

\* void g4(int n)
g4(s, n) ==
    g(g(g(g(s, n % 256, "operand"), (n \div 256) % 256, "operand"),
        (n \div 65536) % 256, "operand"), (n \div 16777216) % 256, "operand")

\* int hole(): here++ (the value returned is s.here before the call)
hole(s) ==
    IF s.status # "ok" THEN s
    ELSE [s EXCEPT !.vm = IF s.here < VM_SZ THEN Append(@, 0) ELSE @,
                   !.here = @ + 1,
                   !.wlog = Append(@, Entry("hole", s.here, s.here, 0, "disp", s.here))]

\* fix() writing one byte too low, on the opcode of the jump.
fix_OnOpcode(s, src, dst) ==
    IF s.status # "ok" THEN s
    ELSE [s EXCEPT !.vm[src] = ToChar(dst - src),
                   !.wlog = Append(@, Entry("fix", src - 1, s.here, ToChar(dst - src), "disp", dst))]

\* void fix(int src, int dst): vm[src] = dst-src, converted to char unchecked
fix(s, src, dst) ==
    IF s.status # "ok" THEN s
    ELSE LET e == Entry("fix", src, s.here, ToChar(dst - src), "disp", dst) IN
         IF src >= VM_SZ
         THEN [s EXCEPT !.wlog = Append(@, e), !.status = "undefined"]
         ELSE [s EXCEPT !.vm[src + 1] = ToChar(dst - src), !.wlog = Append(@, e)]

\* What c() emitted for node x of kind k: the bytes from..to-1; val is the
\* literal of a CST, the symbol of a FUNC_DEF, the offset of the JZ operand
\* of a WHILE.
Emitted(k, x, from, to, val) == [kind |-> k, x |-> x, from |-> from, to |-> to, val |-> val]

note(e, k, x, from, val) ==
    IF e.status # "ok" THEN e
    ELSE [e EXCEPT !.elog = Append(@, Emitted(k, x, from, e.here, val))]

\* The value of the symbol set one byte behind the emission offset.
def_val_Next(s, i) == [s EXCEPT !.dict = SetDictVal(@, i, s.here + 1)]

\* case FUNC_DEF: dict[x->val].val=here;
def_val(s, i) == [s EXCEPT !.dict = SetDictVal(@, i, s.here)]

\* BTWI with the upper limit left out of the range.
BTWI_Exclusive(n, l, h) == l <= n /\ n < h

BTWI(n, l, h) == l <= n /\ n <= h

\* The opcode of a binary node.
binop(k) ==
    CASE k = ADD -> IADD [] k = SUB -> ISUB [] k = MUL -> IMUL
      [] k = DIV -> IDIV [] k = LT -> ILT   [] k = GT -> IGT

\* void c(node_t *x)
RECURSIVE c(_, _)
c(s, x) ==
    LET n == s.nodes[x]
        k == n.kind
        \* c(x->o1); g(JZ); the start of IF1, IF2 and WHILE
        a == g(c(s, n.o1), JZ, "opcode")
        \* case IF1: ... p1=hole(); c(o2); fix(p1,here);
        if1b(b) == fix(b, a.here, b.here)
        \* case IF2: ... p1=hole(); c(o2); g(JMP); p2=hole(); fix(p1,here); c(o3); fix(p2,here);
        if2e(b, e) == fix(e, b.here, e.here)
        if2c(b) == if2e(b, c(fix(hole(b), a.here, hole(b).here), n.o3))
        if2b(b0) == IF b0.status # "ok" THEN b0 ELSE if2c(g(b0, JMP, "opcode"))
        \* case WHILE: p1=here; ... p2=hole(); c(o2); g(JMP); fix(hole(),p1); fix(p2,here);
        whilec(b) == fix(fix(hole(b), b.here, s.here), a.here, hole(b).here)
        whileb(b0) == IF b0.status # "ok" THEN b0 ELSE whilec(g(b0, JMP, "opcode"))
        \* case DO: p1=here; c(o1); c(o2); g(JNZ); fix(hole(),p1);
        doa(d) == fix(hole(d), d.here, s.here)
    IN CASE s.status # "ok" -> s
         [] s.status = "ok" /\ k = VAR -> g2(g(s, FETCH, "opcode"), n.val)
         [] s.status = "ok" /\ k = CST ->
              note(IF BTWI(n.val, 0, 127) THEN g(g(s, LIT1, "opcode"), n.val, "operand")
                   ELSE IF BTWI(n.val, 128, 32767) THEN g2(g(s, LIT2, "opcode"), n.val)
                   ELSE g4(g(s, LIT, "opcode"), n.val),
                   CST, x, s.here, n.val)
         [] s.status = "ok" /\ k \in {ADD, SUB, MUL, DIV, LT, GT} ->
              g(c(c(s, n.o1), n.o2), binop(k), "opcode")
         [] s.status = "ok" /\ k = SET ->
              g2(g(c(s, n.o2), STORE, "opcode"), s.nodes[n.o1].val)
         [] s.status = "ok" /\ k = IF1 -> if1b(c(hole(a), n.o2))
         [] s.status = "ok" /\ k = IF2 -> if2b(c(hole(a), n.o2))
         [] s.status = "ok" /\ k = WHILE ->
              note(whileb(c(hole(a), n.o2)), WHILE, x, s.here, a.here)
         [] s.status = "ok" /\ k = DO ->
              note(doa(g(c(c(s, n.o1), n.o2), JNZ, "opcode")), DO, x, s.here, 0)
         [] s.status = "ok" /\ k = EMPTY -> s
         [] s.status = "ok" /\ k = SEQ -> c(c(s, n.o1), n.o2)
         [] s.status = "ok" /\ k = EXPR -> g(c(s, n.o1), IDROP, "opcode")
         [] s.status = "ok" /\ k = PROG -> g(c(s, n.o1), HALT, "opcode")
         [] s.status = "ok" /\ k = RET -> g(s, IRET, "opcode")
         [] s.status = "ok" /\ k = FUNC_DEF ->
              note(g(c(def_val(s, n.val), n.o1), IRET, "opcode"), FUNC_DEF, x, s.here, n.val)
         [] s.status = "ok" /\ k = FUNC_CALL -> g2(g(s, ICALL, "opcode"), n.val)

---------------------------------------------------------------------------
(* The process, step by step: main() sets here=last=sp=rsp=0, compile()    *)
(* emits the prologue, parses, generates and sets the entry, dis() writes  *)
(* the listing (no effect on the state), run(0) executes, and main() ends  *)
(* with the check of sp.                                                   *)

\* The globals of the compiler as the record the operators above take.
Globals(ub) ==
    [pos |-> lex.pos, ch |-> lex.ch, sym |-> lex.sym, int_val |-> lex.int_val,
     id_name |-> lex.id_name, nodes |-> nodes, dict |-> dict, last |-> last,
     vm |-> vm, here |-> here, wlog |-> wlog, symlog |-> symlog, elog |-> elog,
     status |-> "ok", ub |-> ub]

LexOf(s) ==
    [pos |-> s.pos, ch |-> s.ch, sym |-> s.sym, int_val |-> s.int_val, id_name |-> s.id_name]

\* What a build can make of strcpy into a too small nm[16].
StrcpyOverflow == {"spill", "abort"}

\* Where the process is after a step that left status t.
PhaseAfter(t, ok) == IF t = "ok" THEN ok ELSE IF t = "undefined" THEN "undefined" ELSE "exit"

\* compile(): g(JMP); g(0);
Prologue ==
    /\ phase = "start"
    /\ LET Done(s) == vm' = s.vm /\ here' = s.here /\ wlog' = s.wlog
       IN Done(g(g(Globals("spill"), JMP, "opcode"), 0, "disp"))
    /\ phase' = "prologue"
    /\ UNCHANGED <<input, status, lex, nodes, prog, dict, last, symlog, elog,
                   pc, sp, rsp, st, rst, prev, calls>>

\* compile(): program(), the argument of c()
Parse ==
    /\ phase = "prologue"
    /\ \E ub \in StrcpyOverflow :
         LET Done(r) ==
                 /\ lex' = LexOf(r.s) /\ nodes' = r.s.nodes /\ dict' = r.s.dict
                 /\ last' = r.s.last /\ prog' = r.x /\ status' = r.s.status
                 /\ symlog' = r.s.symlog
                 /\ phase' = PhaseAfter(r.s.status, "parsed")
         IN Done(program(Globals(ub)))
    /\ UNCHANGED <<input, vm, here, wlog, elog, pc, sp, rsp, st, rst, prev, calls>>

\* compile(): c(program())
Emit ==
    /\ phase = "parsed"
    /\ LET Done(s) ==
               /\ vm' = s.vm /\ here' = s.here /\ wlog' = s.wlog /\ dict' = s.dict
               /\ status' = s.status /\ elog' = s.elog
               /\ phase' = PhaseAfter(s.status, "emitted")
       IN Done(c(Globals("spill"), prog))
    /\ UNCHANGED <<input, lex, nodes, prog, last, symlog, pc, sp, rsp, st, rst, prev, calls>>

main_name == <<"m", "a", "i", "n">>

\* The index of main in the symbol table, 0 when there is none.
MainIdx == dict_find(Globals("spill"), main_name, IsFunc)

\* The entry without its else branch: the prologue is left as emitted.
EntryWrite_NoElse(m, val) ==
    IF m # 0 THEN Entry("entry", 1, here, ToChar(val - 1), "disp", val)
    ELSE Entry("entry", 1, here, 0, "disp", 0)

\* compile(): the write that sets the entry, st being dict_find("main", IsFunc):
\* if (st) { vm[1] = (char)(dict[st].val-1); } else { vm[0] = HALT; }
EntryWrite(m, val) ==
    IF m # 0 THEN Entry("entry", 1, here, ToChar(val - 1), "disp", val)
    ELSE Entry("entry", 0, here, HALT, "opcode", 0)

\* compile(): the entry. Then dis(), and run(0) starts.
SetEntry ==
    /\ phase = "emitted"
    /\ LET Patch(w) == /\ vm' = [vm EXCEPT ![w.at + 1] = w.val]
                       /\ wlog' = Append(wlog, w)
           Found(m) == Patch(EntryWrite(m, IF m # 0 THEN DictVal(dict, m) ELSE 0))
       IN Found(MainIdx)
    /\ phase' = "run"
    /\ pc' = 0
    /\ UNCHANGED <<input, status, lex, nodes, prog, dict, last, here, symlog, elog,
                   sp, rsp, st, rst, prev, calls>>

---------------------------------------------------------------------------
(* Virtual machine. st and rst are locals of run(), not initialized: st is *)
(* the function from the indices that were written and are not above sp,   *)
(* rst the sequence rst[0..rsp-1].                                         *)

InVm(a) == 0 <= a /\ a < VM_SZ

\* vm[a]: a byte of the global that was never written is 0.
f1(a) == IF a < Len(vm) THEN vm[a + 1] ELSE 0
\* fu without the cast to byte: the char is sign-extended.
fu_Signed(a) == f1(a)

\* #define fu(a) (byte)vm[a]
fu(a) == ToByte(f1(a))
\* int f2(int a), long f4(int a)
f2(a) == f1(a + 1) * 256 + fu(a)
f4(a) == f1(a + 3) * 16777216 + fu(a + 2) * 65536 + fu(a + 1) * 256 + fu(a)

\* st[] holds longs of 64 bits; the integers of the model have 32. A result
\* inside 32 bits is the result of the code; the tests below tell, without
\* computing it, whether a result is inside 32 bits.

\* NOS += TOS
AddFits(a, b) ==
    IF b >= 0 THEN a <= INT_MAX - b ELSE a >= (-INT_MAX - 1) - b

\* NOS -= TOS
SubFits(a, b) ==
    IF b >= 0 THEN a >= (-INT_MAX - 1) + b ELSE a <= INT_MAX + b

\* 2^31 / p for p > 1, truncated.
Pow31Div(p) == (INT_MAX \div p) + (IF INT_MAX % p = p - 1 THEN 1 ELSE 0)

\* NOS *= TOS
MulFits(a, b) ==
    IF a = 0 THEN TRUE
    ELSE IF b = 0 THEN TRUE
    ELSE IF a > 0
         THEN IF b > 0 THEN a <= INT_MAX \div b
              ELSE IF a = 1 THEN TRUE ELSE b >= -Pow31Div(a)
         ELSE IF b > 0
              THEN IF b = 1 THEN TRUE ELSE a >= -Pow31Div(b)
              ELSE IF a = -INT_MAX - 1 THEN FALSE
              ELSE IF b = -INT_MAX - 1 THEN FALSE
              ELSE -a <= INT_MAX \div (-b)

\* NOS /= TOS: division by zero is undefined, and the one quotient of two
\* values of 32 bits that is outside 32 bits is -2^31 / -1.
DivFits(a, b) ==
    IF b = 0 THEN FALSE
    ELSE IF b = -1 THEN a # -INT_MAX - 1
    ELSE TRUE

\* C division, which truncates toward zero (b is not 0, the quotient fits).
CDiv(a, b) ==
    IF b = -INT_MAX - 1 THEN (IF a = b THEN 1 ELSE 0)
    ELSE IF a = -INT_MAX - 1
         THEN IF b = 1 THEN a
              ELSE IF b > 0 THEN -Pow31Div(b)
              ELSE Pow31Div(-b)
    ELSE LET q == (IF a < 0 THEN -a ELSE a) \div (IF b < 0 THEN -b ELSE b)
         IN IF (a < 0) = (b < 0) THEN q ELSE -q

\* The result of a binary opcode on NOS = a and TOS = b.
Arith(op, a, b) ==
    CASE op = IADD -> a + b
      [] op = ISUB -> a - b
      [] op = IMUL -> a * b
      [] op = IDIV -> CDiv(a, b)
      [] op = ILT -> IF a < b THEN 1 ELSE 0
      [] op = IGT -> IF a > b THEN 1 ELSE 0

\* Whether the result of a binary opcode is defined and inside 32 bits.
ArithFits(op, a, b) ==
    CASE op = IADD -> AddFits(a, b)
      [] op = ISUB -> SubFits(a, b)
      [] op = IMUL -> MulFits(a, b)
      [] op = IDIV -> DivFits(a, b)
      [] OTHER -> TRUE

\* The stack after st[i] = v, and after sp became n.
StSet(f, i, v) == [j \in (DOMAIN f) \cup {i} |-> IF j = i THEN v ELSE f[j]]
StCut(f, n) == [j \in {k \in DOMAIN f : k <= n} |-> f[j]]

CanPush == 0 <= sp + 1 /\ sp + 1 < STK_SZ
Has(i) == i \in DOMAIN st

\* Whether the instruction at pc executes inside what C defines and inside
\* the 32-bit integers of the model (a long of the program has 64 bits, so
\* that the code goes on with a value the model does not hold).
Defined ==
    /\ InVm(pc)
    /\ LET op == f1(pc)
           q == pc + 1
       IN CASE op = FETCH -> InVm(q + 1) /\ f2(q) \in 0..DICT_SZ /\ CanPush
                             /\ ValFits(dict, f2(q))
            [] op = STORE -> InVm(q + 1) /\ f2(q) \in 0..DICT_SZ /\ Has(sp)
            [] op = LIT1 -> InVm(q) /\ CanPush
            [] op = LIT2 -> InVm(q + 1) /\ CanPush
            [] op = LIT -> InVm(q + 3) /\ CanPush
            [] op \in {IADD, ISUB, IMUL, IDIV, ILT, IGT} ->
                 Has(sp) /\ Has(sp - 1) /\ ArithFits(op, st[sp - 1], st[sp])
            [] op = JMP -> InVm(q)
            [] op \in {JZ, JNZ} -> Has(sp) /\ ((st[sp] = 0) = (op = JZ) => InVm(q))
            [] op = ICALL -> InVm(q + 1) /\ f2(q) \in 0..DICT_SZ /\ rsp < STK_SZ
                             /\ ValFits(dict, f2(q))
            [] OTHER -> TRUE

Exec(op) == phase = "run" /\ Defined /\ f1(pc) = op /\ prev' = [pc |-> pc, op |-> op]

KeepC == UNCHANGED <<input, status, lex, nodes, prog, last, vm, here, wlog, symlog, elog>>
Keep == KeepC /\ UNCHANGED calls

\* st[++sp] = v
Push(v) == sp' = sp + 1 /\ st' = StSet(st, sp + 1, v)

\* case FETCH: st[++sp] = dict[f2(pc)].val; pc += 2;
DoFETCH ==
    /\ Exec(FETCH)
    /\ Push(DictVal(dict, f2(pc + 1)))
    /\ pc' = pc + 3
    /\ Keep /\ UNCHANGED <<phase, dict, rsp, rst>>

\* case STORE: dict[f2(pc)].val = st[sp]; pc += 2;
DoSTORE ==
    /\ Exec(STORE)
    /\ dict' = SetDictVal(dict, f2(pc + 1), st[sp])
    /\ pc' = pc + 3
    /\ Keep /\ UNCHANGED <<phase, sp, st, rsp, rst>>

\* case LIT1: st[++sp] = f1(pc++);
DoLIT1 ==
    /\ Exec(LIT1)
    /\ Push(f1(pc + 1))
    /\ pc' = pc + 2
    /\ Keep /\ UNCHANGED <<phase, dict, rsp, rst>>

\* case LIT2: st[++sp] = f2(pc); pc += 2;
DoLIT2 ==
    /\ Exec(LIT2)
    /\ Push(f2(pc + 1))
    /\ pc' = pc + 3
    /\ Keep /\ UNCHANGED <<phase, dict, rsp, rst>>

\* case LIT: st[++sp] = f4(pc); pc += 4;
DoLIT ==
    /\ Exec(LIT)
    /\ Push(f4(pc + 1))
    /\ pc' = pc + 5
    /\ Keep /\ UNCHANGED <<phase, dict, rsp, rst>>

\* case IDROP: --sp;
DoIDROP ==
    /\ Exec(IDROP)
    /\ sp' = sp - 1 /\ st' = StCut(st, sp - 1)
    /\ pc' = pc + 1
    /\ Keep /\ UNCHANGED <<phase, dict, rsp, rst>>

\* NOS op= TOS; --sp;
Binary(op) ==
    /\ Exec(op)
    /\ sp' = sp - 1
    /\ st' = StCut(StSet(st, sp - 1, Arith(op, st[sp - 1], st[sp])), sp - 1)
    /\ pc' = pc + 1
    /\ Keep /\ UNCHANGED <<phase, dict, rsp, rst>>

DoIADD == Binary(IADD)
DoISUB == Binary(ISUB)
DoIMUL == Binary(IMUL)
DoIDIV == Binary(IDIV)
DoILT == Binary(ILT)
DoIGT == Binary(IGT)

\* JMP adding the displacement to the offset of the opcode.
DoJMP_FromOpcode ==
    /\ Exec(JMP)
    /\ pc' = pc + f1(pc + 1)
    /\ Keep /\ UNCHANGED <<phase, dict, sp, st, rsp, rst>>

\* case JMP: pc += f1(pc);
DoJMP ==
    /\ Exec(JMP)
    /\ pc' = (pc + 1) + f1(pc + 1)
    /\ Keep /\ UNCHANGED <<phase, dict, sp, st, rsp, rst>>

\* JZ without the pc++ of the branch not taken: the operand is decoded next.
DoJZ_IntoOperand ==
    /\ Exec(JZ)
    /\ sp' = sp - 1 /\ st' = StCut(st, sp - 1)
    /\ pc' = IF st[sp] = 0 THEN (pc + 1) + f1(pc + 1) ELSE pc + 1
    /\ Keep /\ UNCHANGED <<phase, dict, rsp, rst>>

\* case JZ: if (st[sp--] == 0) pc += f1(pc); else pc++;
DoJZ ==
    /\ Exec(JZ)
    /\ sp' = sp - 1 /\ st' = StCut(st, sp - 1)
    /\ pc' = IF st[sp] = 0 THEN (pc + 1) + f1(pc + 1) ELSE pc + 2
    /\ Keep /\ UNCHANGED <<phase, dict, rsp, rst>>

\* case JNZ: if (st[sp--] != 0) pc += f1(pc); else pc++;
DoJNZ ==
    /\ Exec(JNZ)
    /\ sp' = sp - 1 /\ st' = StCut(st, sp - 1)
    /\ pc' = IF st[sp] # 0 THEN (pc + 1) + f1(pc + 1) ELSE pc + 2
    /\ Keep /\ UNCHANGED <<phase, dict, rsp, rst>>

\* ICALL that jumps without pushing the return address.
DoICALL_NoReturnAddress ==
    /\ Exec(ICALL)
    /\ pc' = DictVal(dict, f2(pc + 1))
    /\ Keep /\ UNCHANGED <<phase, dict, sp, st, rsp, rst>>

\* case ICALL: rst[rsp++] = pc+2; pc = dict[f2(pc)].val;
DoICALL ==
    /\ Exec(ICALL)
    /\ rst' = Append(rst, pc + 3) /\ rsp' = rsp + 1
    /\ pc' = DictVal(dict, f2(pc + 1))
    /\ calls' = Append(calls, [at |-> pc, sp |-> sp, rsp |-> rsp])
    /\ KeepC /\ UNCHANGED <<phase, dict, sp, st>>

\* IRET that drops the return address and goes on behind itself.
DoIRET_PopOnly ==
    /\ Exec(IRET)
    /\ IF rsp # 0
       THEN /\ pc' = pc + 1 /\ rsp' = rsp - 1 /\ rst' = SubSeq(rst, 1, rsp - 1)
            /\ calls' = SubSeq(calls, 1, rsp - 1)
            /\ UNCHANGED phase
       ELSE /\ pc' = pc + 1 /\ phase' = "stopped" /\ UNCHANGED <<rsp, rst, calls>>
    /\ KeepC /\ UNCHANGED <<dict, sp, st>>

\* case IRET: if (rsp) { pc=rst[--rsp]; } else { return; }
DoIRET ==
    /\ Exec(IRET)
    /\ IF rsp # 0
       THEN /\ pc' = rst[rsp] /\ rsp' = rsp - 1 /\ rst' = SubSeq(rst, 1, rsp - 1)
            /\ calls' = SubSeq(calls, 1, rsp - 1)
            /\ UNCHANGED phase
       ELSE /\ pc' = pc + 1 /\ phase' = "stopped" /\ UNCHANGED <<rsp, rst, calls>>
    /\ KeepC /\ UNCHANGED <<dict, sp, st>>

\* case HALT: return;
DoHALT ==
    /\ Exec(HALT)
    /\ pc' = pc + 1 /\ phase' = "stopped"
    /\ Keep /\ UNCHANGED <<dict, sp, st, rsp, rst>>

\* A byte that is no opcode: the switch has no case for it and run() returns.
NoCase ==
    /\ phase = "run" /\ InVm(pc) /\ f1(pc) \notin HALT..IRET
    /\ prev' = [pc |-> pc, op |-> f1(pc)]
    /\ pc' = pc + 1 /\ phase' = "stopped"
    /\ Keep /\ UNCHANGED <<dict, sp, st, rsp, rst>>

\* The instruction at pc reads or writes outside an array, reads a stack slot
\* never written, divides by zero, or leaves the integers of the model: what
\* follows is not modelled.
Trap ==
    /\ phase = "run" /\ ~Defined
    /\ phase' = "undefined"
    /\ UNCHANGED <<input, status, lex, nodes, prog, dict, last, vm, here, wlog, symlog,
                   elog, pc, sp, rsp, st, rst, prev, calls>>

\* main() after run(): the symbols are printed; if (sp) error("-stack not empty-");
Exit ==
    /\ phase = "stopped"
    /\ status' = IF sp # 0 THEN "stack_not_empty" ELSE "ok"
    /\ phase' = "exit"
    /\ UNCHANGED <<input, lex, nodes, prog, dict, last, vm, here, wlog, symlog,
                   elog, pc, sp, rsp, st, rst, prev, calls>>

---------------------------------------------------------------------------
(* Source files. Each is the text of a program, character by character.   *)
TreeDepth == 6
ChainLen == 6
BodyDepth == 4

RECURSIVE Rep(_, _)
Rep(s, n) == IF n = 0 THEN <<>> ELSE s \o Rep(s, n - 1)

If100000 == <<"i", "f", "(", "1", "0", "0", "0", "0", "0", ")">>
Else == <<"e", "l", "s", "e", " ">>
Leaf == <<"x", "+", "1", ";">>
Chain(k) == Rep(<<"w", "h", "i", "l", "e", "(", "1", "0", "0", "0", "0", "0", ")">>, k) \o <<";">>

RECURSIVE IfTree(_, _)
IfTree(d, leaf) ==
    IF d = 0 THEN leaf
    ELSE If100000 \o IfTree(d - 1, leaf) \o Else \o IfTree(d - 1, leaf)

\* void main() { a = 1 + 2 * 3; }
P_S1 ==
    <<"v", "o", "i", "d", " ", "m", "a", "i", "n", "(", ")", " ", "{", " ", "a", " ",
      "=", " ", "1", " ", "+", " ", "2", " ", "*", " ", "3", ";", " ", "}">>

\* void main() { i = 0; s = 0; while (i < 5) { s = s + i; i = i + 1; } }
P_S2 ==
    <<"v", "o", "i", "d", " ", "m", "a", "i", "n", "(", ")", " ", "{", " ", "i", " ",
      "=", " ", "0", ";", " ", "s", " ", "=", " ", "0", ";", " ", "w", "h", "i", "l",
      "e", " ", "(", "i", " ", "<", " ", "5", ")", " ", "{", " ", "s", " ", "=", " ",
      "s", " ", "+", " ", "i", ";", " ", "i", " ", "=", " ", "i", " ", "+", " ", "1",
      ";", " ", "}", " ", "}">>

\* void main() { n = 0; do { n = n + 1; } while (n < 3); }
P_S3 ==
    <<"v", "o", "i", "d", " ", "m", "a", "i", "n", "(", ")", " ", "{", " ", "n", " ",
      "=", " ", "0", ";", " ", "d", "o", " ", "{", " ", "n", " ", "=", " ", "n", " ",
      "+", " ", "1", ";", " ", "}", " ", "w", "h", "i", "l", "e", " ", "(", "n", " ",
      "<", " ", "3", ")", ";", " ", "}">>

\* void main() { x = 7; if (x > 5) y = 1; else y = 2; }
P_S4 ==
    <<"v", "o", "i", "d", " ", "m", "a", "i", "n", "(", ")", " ", "{", " ", "x", " ",
      "=", " ", "7", ";", " ", "i", "f", " ", "(", "x", " ", ">", " ", "5", ")", " ",
      "y", " ", "=", " ", "1", ";", " ", "e", "l", "s", "e", " ", "y", " ", "=", " ",
      "2", ";", " ", "}">>

\* void inc() { c = c + 1; return; } void main() { c = 0; inc(); inc(); }
P_S5 ==
    <<"v", "o", "i", "d", " ", "i", "n", "c", "(", ")", " ", "{", " ", "c", " ", "=",
      " ", "c", " ", "+", " ", "1", ";", " ", "r", "e", "t", "u", "r", "n", ";", " ",
      "}", " ", "v", "o", "i", "d", " ", "m", "a", "i", "n", "(", ")", " ", "{", " ",
      "c", " ", "=", " ", "0", ";", " ", "i", "n", "c", "(", ")", ";", " ", "i", "n",
      "c", "(", ")", ";", " ", "}">>

\* { void inc() { c = c + 1; return; } void main() { c = 0; inc(); inc(); } }
P_S5block ==
    <<"{", " ", "v", "o", "i", "d", " ", "i", "n", "c", "(", ")", " ", "{", " ", "c",
      " ", "=", " ", "c", " ", "+", " ", "1", ";", " ", "r", "e", "t", "u", "r", "n",
      ";", " ", "}", " ", "v", "o", "i", "d", " ", "m", "a", "i", "n", "(", ")", " ",
      "{", " ", "c", " ", "=", " ", "0", ";", " ", "i", "n", "c", "(", ")", ";", " ",
      "i", "n", "c", "(", ")", ";", " ", "}", " ", "}">>

\* void main() { a = 100; b = 1000; c = 100000; }
P_S6 ==
    <<"v", "o", "i", "d", " ", "m", "a", "i", "n", "(", ")", " ", "{", " ", "a", " ",
      "=", " ", "1", "0", "0", ";", " ", "b", " ", "=", " ", "1", "0", "0", "0", ";",
      " ", "c", " ", "=", " ", "1", "0", "0", "0", "0", "0", ";", " ", "}">>

\* { a = 5; void f() { b = a - 7 / 2; } f(); }
P_NoMain ==
    <<"{", " ", "a", " ", "=", " ", "5", ";", " ", "v", "o", "i", "d", " ", "f", "(",
      ")", " ", "{", " ", "b", " ", "=", " ", "a", " ", "-", " ", "7", " ", "/", " ",
      "2", ";", " ", "}", " ", "f", "(", ")", ";", " ", "}">>

\* void main() { abcdefghijklmnopqrst = 1; b = 2; abcdefghijklmnopqrst = 3; }
P_LongName ==
    <<"v", "o", "i", "d", " ", "m", "a", "i", "n", "(", ")", " ", "{", " ", "a", "b",
      "c", "d", "e", "f", "g", "h", "i", "j", "k", "l", "m", "n", "o", "p", "q", "r",
      "s", "t", " ", "=", " ", "1", ";", " ", "b", " ", "=", " ", "2", ";", " ", "a",
      "b", "c", "d", "e", "f", "g", "h", "i", "j", "k", "l", "m", "n", "o", "p", "q",
      "r", "s", "t", " ", "=", " ", "3", ";", " ", "}">>

\* void main() { a = 7 - 2; b = a / 2; c = 0 - 7; d = c / 2; e = b < a; }
P_Arith ==
    <<"v", "o", "i", "d", " ", "m", "a", "i", "n", "(", ")", " ", "{", " ", "a", " ",
      "=", " ", "7", " ", "-", " ", "2", ";", " ", "b", " ", "=", " ", "a", " ", "/",
      " ", "2", ";", " ", "c", " ", "=", " ", "0", " ", "-", " ", "7", ";", " ", "d",
      " ", "=", " ", "c", " ", "/", " ", "2", ";", " ", "e", " ", "=", " ", "b", " ",
      "<", " ", "a", ";", " ", "}">>

\* void main() { a = 1 / 0; }
P_DivZero ==
    <<"v", "o", "i", "d", " ", "m", "a", "i", "n", "(", ")", " ", "{", " ", "a", " ",
      "=", " ", "1", " ", "/", " ", "0", ";", " ", "}">>

\* void main() { a = 0 - 2147483647 - 1; b = a / 2; c = 5 / a; d = a / a; e = 0 * 5; f = a * 1; g = (0 - 65536) * 32768; h = 2147483646 + 1; t = g < h; }
P_Edge ==
    <<"v", "o", "i", "d", " ", "m", "a", "i", "n", "(", ")", " ", "{", " ", "a", " ",
      "=", " ", "0", " ", "-", " ", "2", "1", "4", "7", "4", "8", "3", "6", "4", "7",
      " ", "-", " ", "1", ";", " ", "b", " ", "=", " ", "a", " ", "/", " ", "2", ";",
      " ", "c", " ", "=", " ", "5", " ", "/", " ", "a", ";", " ", "d", " ", "=", " ",
      "a", " ", "/", " ", "a", ";", " ", "e", " ", "=", " ", "0", " ", "*", " ", "5",
      ";", " ", "f", " ", "=", " ", "a", " ", "*", " ", "1", ";", " ", "g", " ", "=",
      " ", "(", "0", " ", "-", " ", "6", "5", "5", "3", "6", ")", " ", "*", " ", "3",
      "2", "7", "6", "8", ";", " ", "h", " ", "=", " ", "2", "1", "4", "7", "4", "8",
      "3", "6", "4", "6", " ", "+", " ", "1", ";", " ", "t", " ", "=", " ", "g", " ",
      "<", " ", "h", ";", " ", "}">>

\* void main() { a = 2147483647 + 1; }
P_Wide ==
    <<"v", "o", "i", "d", " ", "m", "a", "i", "n", "(", ")", " ", "{", " ", "a", " ",
      "=", " ", "2", "1", "4", "7", "4", "8", "3", "6", "4", "7", " ", "+", " ", "1",
      ";", " ", "}">>

\* void main() { a = 1; } else 7 (
P_Trailing ==
    <<"v", "o", "i", "d", " ", "m", "a", "i", "n", "(", ")", " ", "{", " ", "a", " ",
      "=", " ", "1", ";", " ", "}", " ", "e", "l", "s", "e", " ", "7", " ", "(">>

\* { void x() { x = 1; } void main() { x(); x = x + 1; } }
P_SameName ==
    <<"{", " ", "v", "o", "i", "d", " ", "x", "(", ")", " ", "{", " ", "x", " ", "=",
      " ", "1", ";", " ", "}", " ", "v", "o", "i", "d", " ", "m", "a", "i", "n", "(",
      ")", " ", "{", " ", "x", "(", ")", ";", " ", "x", " ", "=", " ", "x", " ", "+",
      " ", "1", ";", " ", "}", " ", "}">>

\* void main() { a = (1; }
P_SynErr ==
    <<"v", "o", "i", "d", " ", "m", "a", "i", "n", "(", ")", " ", "{", " ", "a", " ",
      "=", " ", "(", "1", ";", " ", "}">>

\* if(100000) if(100000) T(TreeDepth-2, ChainLen+1) else T(TreeDepth-2, ChainLen) else T(TreeDepth-1, ChainLen):
\* T(d, k) is a tree of d levels of if(100000) ... else ... over leaves of k nested while(100000) and a ;
P_Big ==
    If100000 \o If100000 \o IfTree(TreeDepth - 2, Chain(ChainLen + 1))
    \o Else \o IfTree(TreeDepth - 2, Chain(ChainLen))
    \o Else \o IfTree(TreeDepth - 1, Chain(ChainLen))

\* {void f(){ T x=100000;}void main(){y=5;}} with T a tree of BodyDepth levels of if(100000) ... else ...
\* over leaves x+1;
P_FarMain ==
    <<"{", "v", "o", "i", "d", " ", "f", "(", ")", "{">> \o IfTree(BodyDepth, Leaf)
    \o <<"x", "=", "1", "0", "0", "0", "0", "0", ";", "}", "v", "o", "i", "d", " ", "m",
      "a", "i", "n", "(", ")", "{", "y", "=", "5", ";", "}", "}">>

\* void main() { a = 0; b = 127; c = 128; d = 255; e = 32767; f = 32768; g = 65535; h = 2147483647; i = 16777216; }
P_Lits ==
    <<"v", "o", "i", "d", " ", "m", "a", "i", "n", "(", ")", " ", "{", " ", "a", " ",
      "=", " ", "0", ";", " ", "b", " ", "=", " ", "1", "2", "7", ";", " ", "c", " ",
      "=", " ", "1", "2", "8", ";", " ", "d", " ", "=", " ", "2", "5", "5", ";", " ",
      "e", " ", "=", " ", "3", "2", "7", "6", "7", ";", " ", "f", " ", "=", " ", "3",
      "2", "7", "6", "8", ";", " ", "g", " ", "=", " ", "6", "5", "5", "3", "5", ";",
      " ", "h", " ", "=", " ", "2", "1", "4", "7", "4", "8", "3", "6", "4", "7", ";",
      " ", "i", " ", "=", " ", "1", "6", "7", "7", "7", "2", "1", "6", ";", " ", "}">>

\* void main() { a = 8 - 4 - 2; b = 8 / 4 / 2; c = 2 + 3 * 4 - 5; d = 20 - 2 * 3 / 6 + 1; }
P_Chain ==
    <<"v", "o", "i", "d", " ", "m", "a", "i", "n", "(", ")", " ", "{", " ", "a", " ",
      "=", " ", "8", " ", "-", " ", "4", " ", "-", " ", "2", ";", " ", "b", " ", "=",
      " ", "8", " ", "/", " ", "4", " ", "/", " ", "2", ";", " ", "c", " ", "=", " ",
      "2", " ", "+", " ", "3", " ", "*", " ", "4", " ", "-", " ", "5", ";", " ", "d",
      " ", "=", " ", "2", "0", " ", "-", " ", "2", " ", "*", " ", "3", " ", "/", " ",
      "6", " ", "+", " ", "1", ";", " ", "}">>

\* void main() { n = 0; while (n) { w = w + 1; } do { m = m + 1; } while (n); }
P_ZeroLoop ==
    <<"v", "o", "i", "d", " ", "m", "a", "i", "n", "(", ")", " ", "{", " ", "n", " ",
      "=", " ", "0", ";", " ", "w", "h", "i", "l", "e", " ", "(", "n", ")", " ", "{",
      " ", "w", " ", "=", " ", "w", " ", "+", " ", "1", ";", " ", "}", " ", "d", "o",
      " ", "{", " ", "m", " ", "=", " ", "m", " ", "+", " ", "1", ";", " ", "}", " ",
      "w", "h", "i", "l", "e", " ", "(", "n", ")", ";", " ", "}">>

\* void main() { f(); }
P_UndefCall ==
    <<"v", "o", "i", "d", " ", "m", "a", "i", "n", "(", ")", " ", "{", " ", "f", "(",
      ")", ";", " ", "}">>

\* { void f() { a = 1; } void f() { a = 2; } }
P_Redef ==
    <<"{", " ", "v", "o", "i", "d", " ", "f", "(", ")", " ", "{", " ", "a", " ", "=",
      " ", "1", ";", " ", "}", " ", "v", "o", "i", "d", " ", "f", "(", ")", " ", "{",
      " ", "a", " ", "=", " ", "2", ";", " ", "}", " ", "}">>

\* { void abcdefghijklmnopqrst() { a = 1; } void abcdefghijklmnopqrst() { a = 2; } void main() { a = 3; } }
P_LongFunc ==
    <<"{", " ", "v", "o", "i", "d", " ", "a", "b", "c", "d", "e", "f", "g", "h", "i",
      "j", "k", "l", "m", "n", "o", "p", "q", "r", "s", "t", "(", ")", " ", "{", " ",
      "a", " ", "=", " ", "1", ";", " ", "}", " ", "v", "o", "i", "d", " ", "a", "b",
      "c", "d", "e", "f", "g", "h", "i", "j", "k", "l", "m", "n", "o", "p", "q", "r",
      "s", "t", "(", ")", " ", "{", " ", "a", " ", "=", " ", "2", ";", " ", "}", " ",
      "v", "o", "i", "d", " ", "m", "a", "i", "n", "(", ")", " ", "{", " ", "a", " ",
      "=", " ", "3", ";", " ", "}", " ", "}">>

\* void main() { (x) = 1; }
P_ParenSet ==
    <<"v", "o", "i", "d", " ", "m", "a", "i", "n", "(", ")", " ", "{", " ", "(", "x",
      ")", " ", "=", " ", "1", ";", " ", "}">>

\* void main() { x + y = 1; }
P_SumSet ==
    <<"v", "o", "i", "d", " ", "m", "a", "i", "n", "(", ")", " ", "{", " ", "x", " ",
      "+", " ", "y", " ", "=", " ", "1", ";", " ", "}">>

\* { a = 5; void g() { b = b + 1; } while (a) { a = a - 1; } void main() { c = a; g(); } a = 7; g(); }
P_TopLevel ==
    <<"{", " ", "a", " ", "=", " ", "5", ";", " ", "v", "o", "i", "d", " ", "g", "(",
      ")", " ", "{", " ", "b", " ", "=", " ", "b", " ", "+", " ", "1", ";", " ", "}",
      " ", "w", "h", "i", "l", "e", " ", "(", "a", ")", " ", "{", " ", "a", " ", "=",
      " ", "a", " ", "-", " ", "1", ";", " ", "}", " ", "v", "o", "i", "d", " ", "m",
      "a", "i", "n", "(", ")", " ", "{", " ", "c", " ", "=", " ", "a", ";", " ", "g",
      "(", ")", ";", " ", "}", " ", "a", " ", "=", " ", "7", ";", " ", "g", "(", ")",
      ";", " ", "}">>

\* { void o() { a = a + 1; void f() { b = b + 2; } c = 3; } void main() { o(); f(); } }
P_Nested ==
    <<"{", " ", "v", "o", "i", "d", " ", "o", "(", ")", " ", "{", " ", "a", " ", "=",
      " ", "a", " ", "+", " ", "1", ";", " ", "v", "o", "i", "d", " ", "f", "(", ")",
      " ", "{", " ", "b", " ", "=", " ", "b", " ", "+", " ", "2", ";", " ", "}", " ",
      "c", " ", "=", " ", "3", ";", " ", "}", " ", "v", "o", "i", "d", " ", "m", "a",
      "i", "n", "(", ")", " ", "{", " ", "o", "(", ")", ";", " ", "f", "(", ")", ";",
      " ", "}", " ", "}">>

\* void main(){if(r<1){r=r+1;main();}x=1;c=3;do T while(c);1;c=3;} with the same tree T
P_CallWrap ==
    <<"v", "o", "i", "d", " ", "m", "a", "i", "n", "(", ")", "{", "i", "f", "(", "r",
      "<", "1", ")", "{", "r", "=", "r", "+", "1", ";", "m", "a", "i", "n", "(", ")",
      ";", "}", "x", "=", "1", ";", "c", "=", "3", ";", "d", "o", " ">> \o IfTree(BodyDepth, Leaf)
    \o <<"w", "h", "i", "l", "e", "(", "c", ")", ";", "1", ";", "c", "=", "3", ";", "}">>

\* void main(){x=1;c=3;do T while(c);1;c=3;} with the same tree T
P_DoWrap ==
    <<"v", "o", "i", "d", " ", "m", "a", "i", "n", "(", ")", "{", "x", "=", "1", ";",
      "c", "=", "3", ";", "d", "o", " ">> \o IfTree(BodyDepth, Leaf)
    \o <<"w", "h", "i", "l", "e", "(", "c", ")", ";", "1", ";", "c", "=", "3", ";", "}">>

Programs ==
    {P_S1, P_S2, P_S3, P_S4, P_S5, P_S5block, P_S6, P_NoMain, P_LongName, P_Arith,
     P_DivZero, P_Edge, P_Wide, P_Trailing, P_SameName, P_SynErr, P_Big, P_FarMain,
     P_Lits, P_Chain, P_ZeroLoop, P_UndefCall, P_Redef, P_LongFunc, P_ParenSet,
     P_SumSet, P_TopLevel, P_Nested, P_CallWrap, P_DoWrap}

(* The specification.                                                      *)
Init ==
    /\ input \in Programs
    /\ phase = "start"
    /\ status = "ok"
    /\ lex = [pos |-> 0, ch |-> " ", sym |-> 0, int_val |-> 0, id_name |-> <<>>]
    /\ nodes = <<>>
    /\ prog = 0
    /\ dict = <<>>
    /\ last = 0
    /\ vm = <<>>
    /\ here = 0
    /\ wlog = <<>>
    /\ symlog = <<>>
    /\ elog = <<>>
    /\ calls = <<>>
    /\ pc = 0 /\ sp = 0 /\ rsp = 0
    /\ st = <<>> /\ rst = <<>>
    /\ prev = [pc |-> -1, op |-> -1]

Next ==
    \/ Prologue \/ Parse \/ Emit \/ SetEntry
    \/ DoFETCH \/ DoSTORE \/ DoLIT1 \/ DoLIT2 \/ DoLIT \/ DoIDROP
    \/ DoIADD \/ DoISUB \/ DoIMUL \/ DoIDIV \/ DoILT \/ DoIGT
    \/ DoJMP \/ DoJZ \/ DoJNZ \/ DoICALL \/ DoIRET \/ DoHALT
    \/ NoCase \/ Trap \/ Exit

Spec == Init /\ [][Next]_vars

---------------------------------------------------------------------------
(* Properties.                                                             *)

\* The value of the variable called name (0 when there is no such variable).
VarIdx(name) == dict_find(Globals("spill"), name, IsVar)
VarVal(name) == IF VarIdx(name) = 0 THEN 0 ELSE DictVal(dict, VarIdx(name))

\* C1: in every program that compiles and defines main, at whatever offset
\* main's body starts, the prologue JMP at offset 0 transfers control to
\* dict[main].val: after that JMP the VM is at the first instruction of main.
C1_PrologueReachesMain ==
    (phase = "run" /\ prev = [pc |-> 0, op |-> JMP]) => pc = DictVal(dict, MainIdx)

\* C2: in every program that compiles and defines no main, run(0) stops at
\* its first instruction: the byte at offset 0 is HALT, it is the only opcode
\* executed, no value of the symbol table changes, and both stacks stay empty.
C2_NoMainOnlyHalt ==
    [][(phase = "run" /\ MainIdx = 0) =>
          /\ pc = 0 /\ prev.pc = -1 /\ f1(0) = HALT
          /\ sp = 0 /\ rsp = 0 /\ st = <<>> /\ rst = <<>>
          /\ phase' = "stopped" /\ prev' = [pc |-> 0, op |-> HALT]
          /\ dict' = dict /\ sp' = 0 /\ rsp' = 0 /\ st' = <<>> /\ rst' = <<>>]_vars

C2_Witness ==
    /\ phase = "stopped" /\ MainIdx = 0 /\ last > 0 /\ here > 3
    /\ prev = [pc |-> 0, op |-> HALT]

\* C3 as stated: the source of S5, two function definitions one after the
\* other at top level, compiles both, runs main and ends normally with c = 2.
C3_S5CountsTwo ==
    (input = P_S5 /\ phase = "exit") =>
        status = "ok" /\ MainIdx # 0 /\ VarVal(<<"c">>) = 2

\* C3 as amended: of the source of S5 only the first definition, inc, is
\* compiled (the parser stops in front of the second void), no main is
\* defined, run(0) halts at offset 0 and the run ends normally with c = 0;
\* the same two definitions inside one block are both compiled, main runs
\* inc twice and the run ends normally with c = 2.
C3_S5OnlyInc ==
    /\ (input = P_S5 /\ phase = "exit") =>
          /\ status = "ok" /\ MainIdx = 0 /\ lex.sym = VOID_SYM
          /\ dict_find(Globals("spill"), <<"i", "n", "c">>, IsFunc) # 0
          /\ prev = [pc |-> 0, op |-> HALT] /\ VarVal(<<"c">>) = 0
    /\ (input = P_S5block /\ phase = "exit") =>
          /\ status = "ok" /\ MainIdx # 0 /\ lex.sym = EOI
          /\ VarIdx(<<"c">>) # 0 /\ VarVal(<<"c">>) = 2 /\ sp = 0

C3_Witness ==
    input \in {P_S5, P_S5block} /\ phase = "exit" /\ VarIdx(<<"c">>) # 0

\* C4: an input is accepted only if it is one statement followed by the end
\* of the input: when another token follows the first top-level statement,
\* compilation ends with a syntax error and nothing is generated or run.
C4_NothingAfterStatement ==
    phase \in {"parsed", "emitted", "run", "stopped"} => lex.sym = EOI

\* Whether an opcode was emitted at offset o.
IsOpcodeAt(o) ==
    \E j \in 1..Len(wlog) : wlog[j].op = "g" /\ wlog[j].at = o /\ wlog[j].role = "opcode"

\* C5: once a program is emitted, the operand of every JZ, JNZ and JMP of an
\* IF1, IF2, WHILE or DO, added to the operand's own offset, is the target
\* given to fix(), which is the offset of an opcode inside [0, here).
C5_JumpsReachTargets ==
    phase = "emitted" =>
        \A i \in 1..Len(wlog) :
            wlog[i].op = "fix" =>
                /\ wlog[i].at + vm[wlog[i].at + 1] = wlog[i].target
                /\ 0 <= wlog[i].target /\ wlog[i].target < here
                /\ IsOpcodeAt(wlog[i].target)

\* C6: when the run of a well-formed program ends, by HALT or by IRET on an
\* empty return stack, the operand stack is empty.
C6_StackEmptyAtEnd ==
    (phase = "stopped" /\ prev.op \in {HALT, IRET}) => sp = 0

\* C7: every occurrence of a variable name resolves to the index given at
\* its first occurrence, no name is inserted twice with the same kind, and a
\* variable and a function of the same name have different entries.
C7_NamesResolveOnce ==
    \A i, j \in 1..Len(symlog) :
        symlog[i].name = symlog[j].name =>
            /\ (symlog[i].ev = "var" /\ symlog[j].ev = "var") => symlog[i].idx = symlog[j].idx
            /\ (symlog[i].ev = "add" /\ symlog[j].ev = "add" /\ i # j) =>
                  symlog[i].kind # symlog[j].kind /\ symlog[i].idx # symlog[j].idx

\* C9: the emission offset never exceeds the size of the code buffer and no
\* byte is written or reserved outside the buffer: emitting into a full
\* buffer ends compilation with an error instead.
C9_CodeBufferNeverOverrun ==
    /\ here <= VM_SZ
    /\ \A i \in 1..Len(wlog) : wlog[i].at < VM_SZ

\* The role of the byte a write replaces: the role given by the last earlier
\* write or reservation at this offset.
RoleBefore(i) ==
    LET before == {j \in 1..(i - 1) : wlog[j].at = wlog[i].at}
    IN IF before = {} THEN "none"
       ELSE wlog[CHOOSE j \in before : \A k \in before : k <= j].role

Appends(i) == wlog[i].at = wlog[i].here

\* C10 as stated: until the buffer is handed to the VM every write appends
\* at the emission offset or replaces a displacement; no opcode is replaced.
C10_NoOpcodeOverwritten ==
    \A i \in 1..Len(wlog) : Appends(i) \/ RoleBefore(i) = "disp"

\* C10 as amended: every write appends at the emission offset or replaces a
\* displacement, except the last write of compile() for a program without
\* main, which replaces the JMP opcode of the prologue at offset 0 by HALT.
C10_OnlyPrologueOpcodeOverwritten ==
    \A i \in 1..Len(wlog) :
        \/ Appends(i)
        \/ RoleBefore(i) = "disp"
        \/ /\ i = Len(wlog) /\ wlog[i].op = "entry" /\ wlog[i].at = 0
           /\ wlog[i].val = HALT /\ MainIdx = 0 /\ phase \notin {"start", "prologue", "parsed", "emitted"}

C10_Witness ==
    /\ phase = "run"
    /\ \E i \in 1..Len(wlog) : wlog[i].op = "fix" /\ RoleBefore(i) = "disp"
    /\ wlog[Len(wlog)].op = "entry"

\* The literals, loops and function definitions emitted so far.
Of(k) == {i \in 1..Len(elog) : elog[i].kind = k}

\* C11: for every CST node with a value v >= 0 the generator emits LIT1 and
\* one operand byte when v <= 127, LIT2 and two operand bytes when v is in
\* 128..32767, LIT and four operand bytes when v >= 32768.
C11_ShortestLiteralForm ==
    \A i \in Of(CST) :
        LET e == elog[i]
            v == e.val
        IN /\ nodes[e.x].kind = CST /\ nodes[e.x].val = v
           /\ v >= 0 =>
                /\ v <= 127 => f1(e.from) = LIT1 /\ e.to = e.from + 2
                /\ (128 <= v /\ v <= 32767) => f1(e.from) = LIT2 /\ e.to = e.from + 3
                /\ v >= 32768 => f1(e.from) = LIT /\ e.to = e.from + 5

C11_Witness ==
    /\ input = P_Lits /\ phase = "emitted"
    /\ {0, 127, 128, 32767, 32768, 2147483647} \subseteq {elog[i].val : i \in Of(CST)}

\* C12: executing the instruction emitted for a CST node of value v pushes
\* exactly v on the operand stack and leaves pc directly behind the operand
\* bytes of that instruction.
C12_LiteralRoundTrip ==
    [][\A i \in Of(CST) :
          (phase = "run" /\ pc = elog[i].from /\ phase' = "run") =>
              /\ prev'.op \in {LIT1, LIT2, LIT}
              /\ sp' = sp + 1 /\ st'[sp'] = elog[i].val
              /\ pc' = elog[i].to]_vars

C12_Witness ==
    /\ input = P_Lits /\ phase = "run" /\ prev.op = LIT
    /\ sp = 1 /\ st[sp] = 2147483647

\* The last character of t[1..i] that is no blank (a blank if there is none).
RECURSIVE Before(_, _)
Before(t, i) ==
    IF i = 0 THEN " "
    ELSE IF t[i] \in {" ", "\n", "\t"} THEN Before(t, i - 1)
    ELSE t[i]

\* Whether the text has a parenthesised term: a ( that follows neither a
\* name nor a keyword.
HasParenTerm(t) == \E i \in 1..Len(t) : t[i] = "(" /\ ~isAlphaNum(Before(t, i - 1))

Compiled == phase \in {"parsed", "emitted", "run", "stopped"}

\* C13: a chain of terms joined by +, -, * and / is parsed as a left-heavy
\* tree (the second operand of every arithmetic node is a single term, the
\* first operand is what was parsed before) and is evaluated from left to
\* right without precedence: a = 1 + 2 * 3 leaves a = 9.
C13_LeftToRightNoPrecedence ==
    /\ (Compiled /\ ~HasParenTerm(input)) =>
          \A x \in 1..Len(nodes) :
              nodes[x].kind \in {ADD, SUB, MUL, DIV} =>
                  /\ nodes[x].o1 \in 1..(x - 1)
                  /\ nodes[x].o2 \in (x + 1)..Len(nodes)
                  /\ nodes[nodes[x].o2].kind \in {VAR, CST}
    /\ (input = P_S1 /\ phase = "exit") => status = "ok" /\ VarVal(<<"a">>) = 9
    /\ (input = P_Chain /\ phase = "exit") =>
          /\ status = "ok"
          /\ VarVal(<<"a">>) = 2 /\ VarVal(<<"b">>) = 1
          /\ VarVal(<<"c">>) = 15 /\ VarVal(<<"d">>) = 10

C13_Witness ==
    /\ input = P_Chain /\ phase = "exit" /\ VarIdx(<<"d">>) # 0
    /\ \E x \in 1..Len(nodes) :
           nodes[x].kind = ADD /\ nodes[nodes[x].o1].kind = DIV

\* Whether the displacements of the loop e fit in a signed byte.
LoopFits(e) ==
    /\ e.from - (e.to - 1) >= -128
    /\ e.kind = WHILE => e.to - e.val <= 127

\* C14: for a WHILE whose displacements fit, the JZ behind the condition
\* leaves the loop when the condition is zero and enters the body otherwise,
\* and the JMP behind the body goes back to the condition; for a DO that
\* fits, the body comes first and the JNZ behind the condition goes back to
\* the body when the condition is nonzero and leaves the loop otherwise.
\* S2 ends with i = 5 and s = 10, S3 with n = 3.
C14_LoopsIterate ==
    [][/\ \A i \in Of(WHILE) :
             LET e == elog[i] IN
             (LoopFits(e) /\ phase = "run" /\ phase' = "run") =>
                 /\ f1(e.val - 1) = JZ /\ f1(e.to - 2) = JMP
                 /\ e.from < e.val - 1 /\ e.val < e.to - 2
                 /\ pc = e.val - 1 =>
                       /\ sp' = sp - 1
                       /\ pc' = IF st[sp] = 0 THEN e.to ELSE e.val + 1
                 /\ pc = e.to - 2 => pc' = e.from /\ sp' = sp
       /\ \A i \in Of(DO) :
             LET e == elog[i] IN
             (LoopFits(e) /\ phase = "run" /\ phase' = "run") =>
                 /\ f1(e.to - 2) = JNZ /\ e.from < e.to - 2
                 /\ pc = e.to - 2 =>
                       /\ sp' = sp - 1
                       /\ pc' = IF st[sp] # 0 THEN e.from ELSE e.to
       /\ (input = P_S2 /\ phase = "stopped") =>
             VarVal(<<"i">>) = 5 /\ VarVal(<<"s">>) = 10 /\ sp = 0
       /\ (input = P_S3 /\ phase = "stopped") => VarVal(<<"n">>) = 3 /\ sp = 0
       /\ (input = P_ZeroLoop /\ phase = "stopped") =>
             VarVal(<<"w">>) = 0 /\ VarVal(<<"m">>) = 1]_vars

C14_Witness ==
    /\ input = P_S2 /\ phase = "stopped"
    /\ VarVal(<<"i">>) = 5 /\ VarVal(<<"s">>) = 10
    /\ \E i \in Of(WHILE) : LoopFits(elog[i]) /\ pc = elog[i].to + 1

\* Whether a function called name was added to the table before event j.
DefinedBefore(j, name) ==
    \E i \in 1..(j - 1) :
        symlog[i].ev = "add" /\ symlog[i].kind = IsFunc /\ symlog[i].name = name

Rejected == status = "syntax_error" /\ phase = "exit"

\* C15: every FUNC_CALL node carries the nonzero index of a Func entry that
\* was added for this name earlier in the source; a call of a name with no
\* earlier definition and a second definition of a defined name end the
\* compilation with a fatal error.
C15_CallsAndDefinitionsChecked ==
    /\ \A j \in 1..Len(symlog) :
          /\ symlog[j].ev = "call" =>
                IF DefinedBefore(j, symlog[j].name)
                THEN \E i \in 1..(j - 1) :
                         /\ symlog[i].ev = "add" /\ symlog[i].kind = IsFunc
                         /\ symlog[i].name = symlog[j].name
                         /\ symlog[i].idx = symlog[j].idx
                ELSE Rejected
          /\ symlog[j].ev = "def" => (DefinedBefore(j, symlog[j].name) => Rejected)
    /\ Compiled =>
          \A x \in 1..Len(nodes) :
              nodes[x].kind = FUNC_CALL =>
                  /\ nodes[x].val \in 1..last
                  /\ DictKind(dict, nodes[x].val) = IsFunc

\* C16: the first operand of every SET node is a VAR node that holds the
\* nonzero index of a Var entry, and in a compiled program every = of the
\* text that was read belongs to one SET node: an = behind anything but a
\* bare identifier, as in (x) = 1; or x + y = 1;, is a syntax error.
C16_OnlyIdentifiersAssigned ==
    /\ \A x \in 1..Len(nodes) :
          nodes[x].kind = SET =>
              /\ nodes[x].o1 \in 1..Len(nodes)
              /\ nodes[nodes[x].o1].kind = VAR
              /\ nodes[nodes[x].o1].val \in 1..last
              /\ DictKind(dict, nodes[nodes[x].o1].val) = IsVar
    /\ Compiled =>
          Cardinality({i \in 1..lex.pos : input[i] = "="})
              = Cardinality({x \in 1..Len(nodes) : nodes[x].kind = SET})
    /\ (input \in {P_ParenSet, P_SumSet} /\ phase # "start" /\ phase # "prologue") =>
          Rejected /\ lex.sym = EQUAL

C16_Witness ==
    /\ input = P_SumSet /\ Rejected /\ lex.sym = EQUAL
    /\ \E x \in 1..Len(nodes) : nodes[x].kind = ADD

\* C17: when emission is complete, for every FUNC_DEF emitted the value of
\* its symbol is the offset where the first instruction of its body was
\* emitted, and the byte directly behind the body is the opcode IRET.
C17_FunctionValueAndReturn ==
    phase = "emitted" =>
        \A i \in Of(FUNC_DEF) :
            LET e == elog[i] IN
            /\ nodes[e.x].kind = FUNC_DEF /\ nodes[e.x].val = e.val
            /\ e.val \in 1..last /\ DictKind(dict, e.val) = IsFunc
            /\ ValFits(dict, e.val) /\ DictVal(dict, e.val) = e.from
            /\ e.from < e.to /\ e.to <= here
            /\ f1(e.to - 1) = IRET /\ IsOpcodeAt(e.to - 1)
            /\ IsOpcodeAt(e.from)

C17_Witness ==
    /\ input = P_Nested /\ phase = "emitted"
    /\ Cardinality(Of(FUNC_DEF)) = 3
    /\ \E i \in Of(FUNC_DEF) : elog[i].from > 2 /\ elog[i].to > elog[i].from + 1

\* C18: an ICALL pushes the offset behind its operand and enters the callee;
\* an IRET executed at the return-stack depth of that call resumes there,
\* with the return-stack depth and the operand-stack depth of just before
\* the ICALL; an IRET on an empty return stack stops the VM and changes
\* neither the variables nor the stacks.
C18_CallsReturnInOrder ==
    [][/\ (phase = "run" /\ f1(pc) = ICALL /\ phase' = "run") =>
             /\ rsp' = rsp + 1 /\ rst'[rsp'] = pc + 3 /\ sp' = sp
             /\ pc' = DictVal(dict, f2(pc + 1))
       /\ (phase = "run" /\ f1(pc) = IRET /\ rsp > 0 /\ phase' = "run") =>
             /\ pc' = calls[rsp].at + 3
             /\ rsp' = calls[rsp].rsp
             /\ sp' = calls[rsp].sp
       /\ (phase = "run" /\ f1(pc) = IRET /\ rsp = 0 /\ phase' # "undefined") =>
             /\ phase' = "stopped"
             /\ dict' = dict /\ sp' = sp /\ st' = st /\ rsp' = 0 /\ rst' = rst]_vars

\* Whether every displacement written by fix() and the entry written by
\* compile() fit in a signed byte.
AllFit ==
    \A i \in 1..Len(wlog) :
        /\ wlog[i].op = "fix" => wlog[i].target - wlog[i].at \in -128..127
        /\ (wlog[i].op = "entry" /\ wlog[i].at = 1) => wlog[i].target - 1 \in -128..127

\* Whether offset o lies in the code of a function: its body or its IRET.
InFunction(o) ==
    \E i \in Of(FUNC_DEF) : elog[i].from <= o /\ o < elog[i].to

\* C19: in a run of a program whose displacements and entry fit in a signed
\* byte, the only instruction executed outside the code of the functions is
\* the prologue at offset 0, so the statements outside every function body
\* change no variable.
C19_OnlyFunctionsRun ==
    /\ (phase \in {"run", "stopped"} /\ AllFit /\ prev.pc # -1) =>
          /\ prev.pc = 0 => prev.op \in {JMP, HALT}
          /\ prev.pc # 0 => InFunction(prev.pc)
          /\ phase = "run" => InFunction(pc)
    /\ (input = P_TopLevel /\ phase = "exit") =>
          /\ status = "ok"
          /\ VarVal(<<"a">>) = 0 /\ VarVal(<<"b">>) = 1 /\ VarVal(<<"c">>) = 0

C19_Witness ==
    /\ input = P_TopLevel /\ phase = "stopped" /\ AllFit
    /\ prev.op = IRET /\ InFunction(prev.pc)
    /\ VarIdx(<<"a">>) # 0 /\ VarVal(<<"a">>) = 0 /\ VarVal(<<"b">>) = 1

\* Whether the code of function definition j lies inside the code of
\* function definition i.
NestedIn(j, i) ==
    /\ i \in Of(FUNC_DEF) /\ j \in Of(FUNC_DEF) /\ i # j
    /\ elog[i].from <= elog[j].from /\ elog[j].to < elog[i].to

\* C20: the code of a function definition nested in a function body lies
\* inside the code of the enclosing function; execution enters it from the
\* enclosing code in front of it without an ICALL, and its trailing IRET
\* returns (or stops the VM on an empty return stack) instead of going on
\* with the rest of the enclosing body. In P_Nested the statement c = 3
\* behind the nested definition is never executed.
C20_NestedDefinitionInline ==
    [][/\ \A i, j \in Of(FUNC_DEF) :
             (NestedIn(j, i) /\ phase = "run") =>
                 /\ (pc' = elog[j].from /\ elog[i].from <= pc /\ pc < elog[j].from
                        /\ phase' = "run") =>
                       f1(pc) # ICALL /\ rsp' = rsp
                 /\ (pc = elog[j].to - 1 /\ phase' # "undefined") =>
                       /\ f1(pc) = IRET
                       /\ IF rsp = 0 THEN phase' = "stopped"
                          ELSE /\ phase' = "run" /\ pc' = rst[rsp] /\ rsp' = rsp - 1
                               /\ pc' # elog[j].to
       /\ input = P_Nested =>
             /\ \A i, j \in Of(FUNC_DEF) :
                   NestedIn(j, i) => ~(elog[j].to <= prev.pc /\ prev.pc < elog[i].to)
             /\ phase = "stopped" =>
                   /\ VarVal(<<"a">>) = 1 /\ VarVal(<<"b">>) = 4 /\ VarVal(<<"c">>) = 0
                   /\ \E i, j \in Of(FUNC_DEF) : NestedIn(j, i)]_vars

C20_Witness ==
    /\ input = P_Nested /\ phase = "run" /\ prev.op = IRET /\ rsp = 0
    /\ \E i, j \in Of(FUNC_DEF) : NestedIn(j, i) /\ prev.pc = elog[j].to - 1
    /\ VarVal(<<"a">>) = 1 /\ VarVal(<<"b">>) = 2

===========================================================================
